---- MODULE Spec2Model ----
(***************************************************************************)
(* zktls-verification-succinct: the guest commitment program               *)
(* (program/src/main.rs) and the two host entry points, the run binary     *)
(* (script/src/bin/main.rs) and the fixture-generation binary              *)
(* (script/src/bin/evm.rs), as one state machine.                          *)
(*                                                                         *)
(* A behaviour is a sequence of process invocations.  Each invocation      *)
(* parses its arguments, runs main() step by step and ends with an exit    *)
(* code: 0 (main returned), 1 (std::process::exit(1)) or 101 (a panic from *)
(* unwrap/expect).  The guest runs inside client.execute / client.prove    *)
(* while the host is blocked in that call.  The fixture directory is the   *)
(* only state that outlives a process.                                     *)
(***************************************************************************)
EXTENDS Integers, Sequences, FiniteSets, TLC

\* ------------------------------------------------------------ bounds
\* Process invocations in one behaviour.
MaxRuns == 2
\* Distinct proof byte strings a (randomized) backend may return.
NumNonces == 2

\* ------------------------------------------------------------ domains
\* include_elf!("zktls-program")
ZKTLS_ELF == "zktls-program"

\* The sizes load() has an arm for.
SupportedLengths == {16, 256, 1024, 2048}
\* --zktls-length values tried: every supported size and some u32 values
\* load() has no arm for.
Lengths == SupportedLengths \cup {0, 17, 99999}

\* enum ProofSystem
ProofSystem == {"Plonk", "Groth16"}

\* Contents the shared key file fixtures/zktls/verifying_k256.key may hold.
Keys == {"k256_A", "k256_B"}

\* Paths load() reads.
KeyPath == "fixtures/zktls/verifying_k256.key"
DataPath(n) ==
    CASE n = 16 -> "fixtures/zktls/data/bench16.json"
      [] n = 256 -> "fixtures/zktls/data/bench256.json"
      [] n = 1024 -> "fixtures/zktls/data/bench1024.json"
      [] n = 2048 -> "fixtures/zktls/data/bench2048.json"
InputPaths == {KeyPath} \cup {DataPath(n) : n \in SupportedLengths}

\* ------------------------------------------------------------ values
\* A VerifyingDataOpt: its attestation records (one batch per bench size)
\* and the key its attestation was signed under.
NoData == [len |-> 0, records |-> <<>>, signer |-> ""]
DataSet(n, k) == [len |-> n, records |-> <<n>>, signer |-> k]

\* One serialized value of a stream: the type it was written with and its
\* payload.
Str(k) == [type |-> "String", str |-> k, data |-> NoData]
Data(d) == [type |-> "VerifyingDataOpt", str |-> "", data |-> d]
Records(r) == [type |-> "Records", str |-> "",
               data |-> [len |-> 0, records |-> r, signer |-> ""]]

\* VerifyingDataOpt::get_records
get_records(d) == d.records

\* VerifyingDataOpt::verify(&key): Ok exactly when the attestation was signed
\* under the given key.
verify(d, k) == d.signer = k

\* What std::fs::read_to_string returns for a path: Err, or the text.
Missing == [ok |-> FALSE, json |-> FALSE, str |-> "", data |-> NoData]
KeyText(k) == [ok |-> TRUE, json |-> FALSE, str |-> k, data |-> NoData]
JsonText(d) == [ok |-> TRUE, json |-> TRUE, str |-> "", data |-> d]
Malformed == [ok |-> TRUE, json |-> FALSE, str |-> "{", data |-> NoData]

\* The input files of one invocation: the key file holds kc; every dataset
\* file is missing, malformed, or holds the bench set of its size signed
\* under dv.
DataVariants == Keys \cup {"missing", "malformed"}
Disk(kc, dv) ==
    [p \in InputPaths |->
        IF p = KeyPath
        THEN IF kc = "missing" THEN Missing ELSE KeyText(kc)
        ELSE IF dv = "missing" THEN Missing
        ELSE IF dv = "malformed" THEN Malformed
        ELSE JsonText(DataSet(CHOOSE n \in SupportedLengths : DataPath(n) = p, dv))]
Disks == {Disk(kc, dv) : kc \in Keys \cup {"missing"}, dv \in DataVariants}

\* serde_json::from_str::<VerifyingDataOpt>
from_str(text) == [ok |-> text.json, value |-> text.data]

\* SP1Stdin::write
write(s, v) == Append(s, v)

\* sp1_zkvm::io::commit
commit(out, v) == Append(out, v)

\* ------------------------------------------------------------ keys, proofs
NoKey == [elf |-> "", kind |-> "none"]
\* client.setup(elf): the key pair is a function of the guest binary.
setup(elf) == [pk |-> [elf |-> elf, kind |-> "pk"],
               vk |-> [elf |-> elf, kind |-> "vk"]]

NoProof == [system |-> "none", bytes |-> <<>>, public_values |-> <<>>,
            vk |-> NoKey, valid |-> FALSE]

\* client.verify(&proof, &vk)
client_verify(p, v) == p.valid /\ p.vk = v

HexDigits == <<"0", "1", "2", "3", "4", "5", "6", "7",
               "8", "9", "a", "b", "c", "d", "e", "f">>
RECURSIVE hex_encode(_)
\* hex::encode
hex_encode(bytes) ==
    IF bytes = <<>> THEN <<>>
    ELSE <<HexDigits[(Head(bytes) \div 16) + 1], HexDigits[(Head(bytes) % 16) + 1]>>
         \o hex_encode(Tail(bytes))

\* vk.bytes32().to_string(): "0x" and the hex of the key's digest.
KeyDigest(v) == IF v.elf = ZKTLS_ELF THEN <<0, 171>> ELSE <<255, 255>>
bytes32(v) == <<"0", "x">> \o hex_encode(KeyDigest(v))

\* The bytes a backend returns: a backend tag and the run's randomness.
ProofBytes(system, nonce) ==
    <<(CASE system = "Plonk" -> 1 [] system = "Groth16" -> 2 [] OTHER -> 0), nonce>>

\* ------------------------------------------------------------ fixtures
\* format!("{:?}-fixture.json", system).to_lowercase()
to_lowercase(s) ==
    CASE s = "Plonk" -> "plonk" [] s = "Groth16" -> "groth16" [] OTHER -> s
fixture_file(system) == <<to_lowercase(system), "-fixture.json">>
FixtureFiles == {fixture_file(s) : s \in ProofSystem}

\* struct SP1ZktlsProofFixture
SP1ZktlsProofFixture(v, p) ==
    [vkey |-> bytes32(v), proof |-> <<"0", "x">> \o hex_encode(p.bytes)]
\* What a write that failed part-way leaves behind.
Torn == [vkey |-> <<>>, proof |-> <<>>]

\* ------------------------------------------------------------ state
VARIABLES
    runs,            \* process invocations started so far
    bin,             \* the binary of the current process: "run", "evm" or "none"
    pc,              \* where main() of the current process stands
    args,            \* Args / EVMArgs as parsed
    client,          \* whether ProverClient::from_env() has run
    stdin,           \* the SP1Stdin being built and passed to the guest
    pk, vk,          \* what client.setup returned
    proof,           \* what client.prove(..).run() returned
    exit_code,       \* -1 while running
    trace,           \* the host's calls and prints of this process, in order
    gpc,             \* where the guest's main() stands
    gin,             \* what is left of the guest's input stream
    verifying_key,   \* the guest's first local
    verifying_data,  \* the guest's second local
    is_ok,           \* the result the guest computes and drops
    public_values,   \* the guest's committed output stream
    gtrace,          \* the guest's io and verify calls, in order
    fs,              \* the fixture directory: file -> the documents it holds
    fs0,             \* the fixture directory when the current process started
    ref              \* one earlier finished guest execution, kept to compare

hostVars == <<bin, pc, args, client, stdin, pk, vk, proof, exit_code, trace>>
guestVars == <<gpc, gin, verifying_key, verifying_data, is_ok, public_values, gtrace>>
vars == <<runs, hostVars, guestVars, fs, fs0, ref>>

NoArgs == [execute |-> FALSE, prove |-> FALSE, zktls_length |-> 16, system |-> "none"]
NoRef == [entry |-> "none", mode |-> "none", stdin |-> <<>>, is_ok |-> FALSE,
          public_values |-> <<>>, bytes |-> <<>>]

\* struct Args, as clap fills it (zktls_length defaults to 16).
RunArgs ==
    {[execute |-> e, prove |-> p, zktls_length |-> n, system |-> "none"] :
        e \in BOOLEAN, p \in BOOLEAN, n \in Lengths}
\* struct EVMArgs, as clap fills it.
EVMArgs ==
    {[execute |-> FALSE, prove |-> FALSE, zktls_length |-> n, system |-> s] :
        n \in Lengths, s \in ProofSystem}

Init ==
    /\ runs = 0
    /\ bin = "none" /\ pc = "idle" /\ args = NoArgs /\ client = FALSE
    /\ stdin = <<>> /\ pk = NoKey /\ vk = NoKey /\ proof = NoProof
    /\ exit_code = -1 /\ trace = <<>>
    /\ gpc = "off" /\ gin = <<>> /\ verifying_key = "" /\ verifying_data = NoData
    /\ is_ok = FALSE /\ public_values = <<>> /\ gtrace = <<>>
    /\ fs = [f \in FixtureFiles |-> <<>>]
    /\ fs0 = [f \in FixtureFiles |-> <<>>]
    /\ ref = NoRef

\* The state of a process that has not started.
NoProcess ==
    /\ bin' = "none" /\ args' = NoArgs /\ client' = FALSE /\ stdin' = <<>>
    /\ pk' = NoKey /\ vk' = NoKey /\ proof' = NoProof
    /\ exit_code' = -1 /\ trace' = <<>>
    /\ gpc' = "off" /\ gin' = <<>> /\ verifying_key' = "" /\ verifying_data' = NoData
    /\ is_ok' = FALSE /\ public_values' = <<>> /\ gtrace' = <<>>

\* The exited process is gone: nothing but the fixture directory survives it.
Terminate ==
    /\ pc = "exited"
    /\ pc' = "idle"
    /\ NoProcess
    /\ fs0' = fs
    /\ UNCHANGED <<runs, fs, ref>>

\* A new process of either binary, its arguments parsed.
Start ==
    /\ pc = "idle"
    /\ runs < MaxRuns
    /\ runs' = runs + 1
    /\ \E b \in {"run", "evm"} :
          /\ bin' = b
          /\ args' \in (IF b = "run" THEN RunArgs ELSE EVMArgs)
    /\ pc' = "main"
    /\ UNCHANGED <<client, stdin, pk, vk, proof, exit_code, trace>>
    /\ UNCHANGED <<guestVars, fs, fs0, ref>>

\* The process ends with `code` after printing `events`.
Exit(code, events) ==
    /\ pc' = "exited"
    /\ exit_code' = code
    /\ trace' = trace \o events

\* ------------------------------------------------------------ load
\* load()'s arm with its two writes exchanged: the dataset goes first.
load_arm_swapped(s, disk, data_path) ==
    LET key_text == disk[KeyPath]
        data_text == disk[data_path]
    IN
    IF ~key_text.ok \/ ~data_text.ok \/ ~from_str(data_text).ok
    THEN [stdin |-> s, status |-> "panic", stderr |-> <<>>]
    ELSE [stdin |-> write(write(s, Data(from_str(data_text).value)),
                          Str(key_text.str)),
          status |-> "ok", stderr |-> <<>>]

\* One arm of load(): read the key file and write it, read and parse the
\* dataset file and write it.  An unwrap of an Err panics where it stands.
load_arm(s, disk, data_path) ==
    LET key_text == disk[KeyPath] IN
    IF ~key_text.ok THEN [stdin |-> s, status |-> "panic", stderr |-> <<>>]
    ELSE
      LET s1 == write(s, Str(key_text.str))
          data_text == disk[data_path]
      IN
      IF ~data_text.ok THEN [stdin |-> s1, status |-> "panic", stderr |-> <<>>]
      ELSE
        LET parsed == from_str(data_text) IN
        IF ~parsed.ok THEN [stdin |-> s1, status |-> "panic", stderr |-> <<>>]
        ELSE [stdin |-> write(s1, Data(parsed.value)), status |-> "ok",
              stderr |-> <<>>]

\* fn load of the run binary.
load(length, s, disk) ==
    CASE length = 16 -> load_arm(s, disk, "fixtures/zktls/data/bench16.json")
      [] length = 256 -> load_arm(s, disk, "fixtures/zktls/data/bench256.json")
      [] length = 1024 -> load_arm(s, disk, "fixtures/zktls/data/bench1024.json")
      [] length = 2048 -> load_arm(s, disk, "fixtures/zktls/data/bench2048.json")
      [] OTHER -> [stdin |-> s, status |-> "exit1",
                   stderr |-> <<"eprintln: Unsupported length">>]

\* load() whose fallback arm loads the default set instead of exiting.
evm_load_default(length, s, disk) ==
    CASE length = 256 -> load_arm(s, disk, "fixtures/zktls/data/bench256.json")
      [] length = 1024 -> load_arm(s, disk, "fixtures/zktls/data/bench1024.json")
      [] length = 2048 -> load_arm(s, disk, "fixtures/zktls/data/bench2048.json")
      [] OTHER -> load_arm(s, disk, "fixtures/zktls/data/bench16.json")

\* fn load of the fixture-generation binary (a copy of the other).
evm_load(length, s, disk) ==
    CASE length = 16 -> load_arm(s, disk, "fixtures/zktls/data/bench16.json")
      [] length = 256 -> load_arm(s, disk, "fixtures/zktls/data/bench256.json")
      [] length = 1024 -> load_arm(s, disk, "fixtures/zktls/data/bench1024.json")
      [] length = 2048 -> load_arm(s, disk, "fixtures/zktls/data/bench2048.json")
      [] OTHER -> [stdin |-> s, status |-> "exit1",
                   stderr |-> <<"eprintln: Unsupported length">>]

\* ------------------------------------------------------------ the guest
\* The zkVM starts the guest on the stream the host passed.
guest_start(s) ==
    /\ gpc' = "read_key"
    /\ gin' = s
    /\ verifying_key' = "" /\ verifying_data' = NoData /\ is_ok' = FALSE
    /\ public_values' = <<>>
    /\ gtrace' = <<>>

\* sp1_zkvm::io::read::<T>(): the next value, which must have been written
\* as a T.
can_read(type) == gin # <<>> /\ Head(gin).type = type

\* let verifying_key: String = sp1_zkvm::io::read();
guest_read_key ==
    /\ gpc = "read_key"
    /\ IF can_read("String")
       THEN /\ verifying_key' = Head(gin).str
            /\ gin' = Tail(gin)
            /\ gpc' = "read_data"
            /\ gtrace' = Append(gtrace, "read")
       ELSE /\ gpc' = "panic"
            /\ UNCHANGED <<verifying_key, gin, gtrace>>
    /\ UNCHANGED <<verifying_data, is_ok, public_values>>
    /\ UNCHANGED <<runs, hostVars, fs, fs0, ref>>

\* let verifying_data: VerifyingDataOpt = sp1_zkvm::io::read();
guest_read_data ==
    /\ gpc = "read_data"
    /\ IF can_read("VerifyingDataOpt")
       THEN /\ verifying_data' = Head(gin).data
            /\ gin' = Tail(gin)
            /\ gpc' = "verify"
            /\ gtrace' = Append(gtrace, "read")
       ELSE /\ gpc' = "panic"
            /\ UNCHANGED <<verifying_data, gin, gtrace>>
    /\ UNCHANGED <<verifying_key, is_ok, public_values>>
    /\ UNCHANGED <<runs, hostVars, fs, fs0, ref>>

\* let _ = verifying_data.verify(&verifying_key).is_ok();
guest_verify ==
    /\ gpc = "verify"
    /\ is_ok' = verify(verifying_data, verifying_key)
    /\ gpc' = "commit_key"
    /\ gtrace' = Append(gtrace, "verify")
    /\ UNCHANGED <<gin, verifying_key, verifying_data, public_values>>
    /\ UNCHANGED <<runs, hostVars, fs, fs0, ref>>

\* The first commit taking the records instead of the key.
guest_commit_key_records_first ==
    /\ gpc = "commit_key"
    /\ public_values' = commit(public_values, Records(get_records(verifying_data)))
    /\ gpc' = "commit_records"
    /\ gtrace' = Append(gtrace, "commit")
    /\ UNCHANGED <<gin, verifying_key, verifying_data, is_ok>>
    /\ UNCHANGED <<runs, hostVars, fs, fs0, ref>>

\* sp1_zkvm::io::commit(&verifying_key);
guest_commit_key ==
    /\ gpc = "commit_key"
    /\ public_values' = commit(public_values, Str(verifying_key))
    /\ gpc' = "commit_records"
    /\ gtrace' = Append(gtrace, "commit")
    /\ UNCHANGED <<gin, verifying_key, verifying_data, is_ok>>
    /\ UNCHANGED <<runs, hostVars, fs, fs0, ref>>

\* The second commit made only when the attestation check returned Ok.
guest_commit_records_if_ok ==
    /\ gpc = "commit_records"
    /\ public_values' = IF is_ok
                        THEN commit(public_values, Records(get_records(verifying_data)))
                        ELSE public_values
    /\ gpc' = "done"
    /\ gtrace' = Append(gtrace, "commit")
    /\ UNCHANGED <<gin, verifying_key, verifying_data, is_ok>>
    /\ UNCHANGED <<runs, hostVars, fs, fs0, ref>>

\* sp1_zkvm::io::commit(&verifying_data.get_records());
guest_commit_records ==
    /\ gpc = "commit_records"
    /\ public_values' = commit(public_values, Records(get_records(verifying_data)))
    /\ gpc' = "done"
    /\ gtrace' = Append(gtrace, "commit")
    /\ UNCHANGED <<gin, verifying_key, verifying_data, is_ok>>
    /\ UNCHANGED <<runs, hostVars, fs, fs0, ref>>

\* The finished guest execution of the current process, as an observer
\* records it; `bytes` are the proof's, empty when nothing was proved.
Execution(mode, pv, bytes) ==
    [entry |-> bin, mode |-> mode, stdin |-> stdin, is_ok |-> is_ok,
     public_values |-> pv, bytes |-> bytes]
\* The observer keeps the execution it holds or takes this one.
Observe(mode, pv, bytes) == ref' \in {ref, Execution(mode, pv, bytes)}

\* A PLONK path whose proofs carry the committed values in another layout.
Proofs_plonk_layout(backend) ==
    {[system |-> backend, bytes |-> ProofBytes(backend, nonce),
      public_values |-> IF backend = "Plonk"
                        THEN SubSeq(public_values, 1, 1)
                        ELSE public_values,
      vk |-> [elf |-> pk.elf, kind |-> "vk"], valid |-> valid] :
        nonce \in 1..NumNonces, valid \in BOOLEAN}

\* What client.prove(&pk, &stdin)...run() returns once the guest has stopped:
\* Err when the guest panicked or the prover failed, else a proof for
\* `backend` bound to pk's verifying key, carrying the guest's public values.
\* A prover may hand back bytes that do not verify.
Proofs(backend) ==
    {[system |-> backend, bytes |-> ProofBytes(backend, nonce),
      public_values |-> public_values,
      vk |-> [elf |-> pk.elf, kind |-> "vk"], valid |-> valid] :
        nonce \in 1..NumNonces, valid \in BOOLEAN}

\* ------------------------------------------------------------ run binary
\* The mode check rejecting only both flags at once.
mode_rejected_both_only(a) == a.execute /\ a.prove

\* The mode branch taken on the wrong flag.
after_load_on_prove(a) == IF a.prove THEN "execute" ELSE "setup"

\* if args.execute == args.prove
mode_rejected(a) == a.execute = a.prove

\* if args.execute { .. } else { .. }
after_load(a) == IF a.execute THEN "execute" ELSE "setup"

\* main(), to the mode check.
run_main ==
    /\ bin = "run" /\ pc = "main"
    /\ IF mode_rejected(args)
       THEN Exit(1, <<"eprintln: Error: You must specify either --execute or --prove">>)
       ELSE /\ pc' = "from_env"
            /\ UNCHANGED <<exit_code, trace>>
    /\ UNCHANGED <<bin, args, client, stdin, pk, vk, proof>>
    /\ UNCHANGED <<runs, guestVars, fs, fs0, ref>>

\* let client = ProverClient::from_env();
run_from_env ==
    /\ bin = "run" /\ pc = "from_env"
    /\ client' = TRUE
    /\ pc' = "load"
    /\ UNCHANGED <<bin, args, stdin, pk, vk, proof, exit_code, trace>>
    /\ UNCHANGED <<runs, guestVars, fs, fs0, ref>>

\* let mut stdin = SP1Stdin::new(); load(args.zktls_length, &mut stdin);
run_load ==
    /\ bin = "run" /\ pc = "load"
    /\ \E disk \in Disks :
          LET r == load(args.zktls_length, stdin, disk) IN
          /\ stdin' = r.stdin
          /\ CASE r.status = "ok" ->
                    /\ pc' = after_load(args)
                    /\ trace' = trace \o <<"load", "println: zktls verification length">>
                    /\ UNCHANGED exit_code
               [] r.status = "exit1" -> Exit(1, <<"load">> \o r.stderr)
               [] OTHER -> Exit(101, <<"load">>)
    /\ UNCHANGED <<bin, args, client, pk, vk, proof>>
    /\ UNCHANGED <<runs, guestVars, fs, fs0, ref>>

\* client.execute(ZKTLS_ELF, &stdin).run(): the call
run_execute ==
    /\ bin = "run" /\ pc = "execute"
    /\ pc' = "executing"
    /\ trace' = Append(trace, "execute")
    /\ guest_start(stdin)
    /\ UNCHANGED <<bin, args, client, stdin, pk, vk, proof, exit_code>>
    /\ UNCHANGED <<runs, fs, fs0, ref>>

\* .unwrap() of what execute returned, and the two prints.
run_executed ==
    /\ bin = "run" /\ pc = "executing"
    /\ gpc \in {"done", "panic"}
    /\ IF gpc = "done"
       THEN /\ Exit(0, <<"println: Program executed successfully.",
                         "println: Number of cycles">>)
            /\ Observe("execute", public_values, <<>>)
       ELSE /\ Exit(101, <<>>)
            /\ UNCHANGED ref
    /\ UNCHANGED <<bin, args, client, stdin, pk, vk, proof>>
    /\ UNCHANGED <<runs, guestVars, fs, fs0>>

\* let (pk, vk) = client.setup(ZKTLS_ELF);
run_setup ==
    /\ bin = "run" /\ pc = "setup"
    /\ pk' = setup(ZKTLS_ELF).pk
    /\ vk' = setup(ZKTLS_ELF).vk
    /\ pc' = "prove"
    /\ trace' = Append(trace, "setup")
    /\ UNCHANGED <<bin, args, client, stdin, proof, exit_code>>
    /\ UNCHANGED <<runs, guestVars, fs, fs0, ref>>

\* client.prove(&pk, &stdin).run(): the call
run_prove ==
    /\ bin = "run" /\ pc = "prove"
    /\ pc' = "proving"
    /\ trace' = Append(trace, "prove")
    /\ guest_start(stdin)
    /\ UNCHANGED <<bin, args, client, stdin, pk, vk, proof, exit_code>>
    /\ UNCHANGED <<runs, fs, fs0, ref>>

\* .expect("failed to generate proof") and the print.
run_proved ==
    /\ bin = "run" /\ pc = "proving"
    /\ gpc \in {"done", "panic"}
    /\ \/ /\ gpc = "done"
          /\ proof' \in Proofs("Core")
          /\ pc' = "verify"
          /\ trace' = Append(trace, "println: Successfully generated proof!")
          /\ Observe("prove", proof'.public_values, proof'.bytes)
          /\ UNCHANGED exit_code
       \/ /\ Exit(101, <<>>)
          /\ UNCHANGED <<proof, ref>>
    /\ UNCHANGED <<bin, args, client, stdin, pk, vk>>
    /\ UNCHANGED <<runs, guestVars, fs, fs0>>

\* The verification whose result is dropped instead of expected.
run_verify_unchecked ==
    /\ bin = "run" /\ pc = "verify"
    /\ Exit(0, <<(IF client_verify(proof, vk) THEN "verify: ok" ELSE "verify: err"),
                 "println: Successfully verified proof!">>)
    /\ UNCHANGED <<bin, args, client, stdin, pk, vk, proof>>
    /\ UNCHANGED <<runs, guestVars, fs, fs0, ref>>

\* client.verify(&proof, &vk).expect("failed to verify proof"); and the print.
run_verify ==
    /\ bin = "run" /\ pc = "verify"
    /\ IF client_verify(proof, vk)
       THEN Exit(0, <<"verify: ok", "println: Successfully verified proof!">>)
       ELSE Exit(101, <<"verify: err">>)
    /\ UNCHANGED <<bin, args, client, stdin, pk, vk, proof>>
    /\ UNCHANGED <<runs, guestVars, fs, fs0, ref>>

\* ------------------------------------------------------------ evm binary
\* let client = ProverClient::from_env();
evm_from_env ==
    /\ bin = "evm" /\ pc = "main"
    /\ client' = TRUE
    /\ pc' = "setup"
    /\ UNCHANGED <<bin, args, stdin, pk, vk, proof, exit_code, trace>>
    /\ UNCHANGED <<runs, guestVars, fs, fs0, ref>>

\* let (pk, vk) = client.setup(ZKTLS_ELF);
evm_setup ==
    /\ bin = "evm" /\ pc = "setup"
    /\ pk' = setup(ZKTLS_ELF).pk
    /\ vk' = setup(ZKTLS_ELF).vk
    /\ pc' = "load"
    /\ trace' = Append(trace, "setup")
    /\ UNCHANGED <<bin, args, client, stdin, proof, exit_code>>
    /\ UNCHANGED <<runs, guestVars, fs, fs0, ref>>

\* let mut stdin = SP1Stdin::new(); load(args.zktls_length, &mut stdin);
evm_do_load ==
    /\ bin = "evm" /\ pc = "load"
    /\ \E disk \in Disks :
          LET r == evm_load(args.zktls_length, stdin, disk) IN
          /\ stdin' = r.stdin
          /\ CASE r.status = "ok" ->
                    /\ pc' = "prove"
                    /\ trace' = trace \o <<"load", "println: zktls verification length",
                                           "println: Proof System">>
                    /\ UNCHANGED exit_code
               [] r.status = "exit1" -> Exit(1, <<"load">> \o r.stderr)
               [] OTHER -> Exit(101, <<"load">>)
    /\ UNCHANGED <<bin, args, client, pk, vk, proof>>
    /\ UNCHANGED <<runs, guestVars, fs, fs0, ref>>

\* match args.system { Plonk => ..plonk().run(), Groth16 => ..groth16().run() }
backend(system) ==
    CASE system = "Plonk" -> "Plonk"
      [] system = "Groth16" -> "Groth16"

\* client.prove(&pk, &stdin).<backend>().run(): the call
evm_prove ==
    /\ bin = "evm" /\ pc = "prove"
    /\ pc' = "proving"
    /\ trace' = Append(trace, "prove")
    /\ guest_start(stdin)
    /\ UNCHANGED <<bin, args, client, stdin, pk, vk, proof, exit_code>>
    /\ UNCHANGED <<runs, fs, fs0, ref>>

\* .expect("failed to generate proof")
evm_proved ==
    /\ bin = "evm" /\ pc = "proving"
    /\ gpc \in {"done", "panic"}
    /\ \/ /\ gpc = "done"
          /\ proof' \in Proofs(backend(args.system))
          /\ pc' = "create_proof_fixture"
          /\ Observe(args.system, proof'.public_values, proof'.bytes)
          /\ UNCHANGED <<exit_code, trace>>
       \/ /\ Exit(101, <<>>)
          /\ UNCHANGED <<proof, ref>>
    /\ UNCHANGED <<bin, args, client, stdin, pk, vk>>
    /\ UNCHANGED <<runs, guestVars, fs, fs0>>

\* A write that appends to the file instead of replacing it.
fs_write_append(old, doc) == Append(old, doc)

\* std::fs::write(path, contents): the file holds `doc` and nothing else.
fs_write(old, doc) == <<doc>>

\* create_proof_fixture(&proof, &vk, args.system), then main returns.
\* create_dir_all or the write may fail; a write that fails leaves the old
\* file or a torn one.
create_proof_fixture ==
    /\ bin = "evm" /\ pc = "create_proof_fixture"
    /\ LET fixture == SP1ZktlsProofFixture(vk, proof)
           file == fixture_file(args.system)
           prints == <<"create_proof_fixture", "println: Verification Key",
                       "println: Proof Bytes">>
       IN
       \/ /\ Exit(101, prints \o <<"create_dir_all: err">>)
          /\ UNCHANGED fs
       \/ /\ Exit(101, prints \o <<"write: err">>)
          /\ fs' \in {fs, [fs EXCEPT ![file] = <<Torn>>]}
       \/ /\ Exit(0, prints \o <<"write: ok">>)
          /\ fs' = [fs EXCEPT ![file] = fs_write(fs[file], fixture)]
    /\ UNCHANGED <<bin, args, client, stdin, pk, vk, proof>>
    /\ UNCHANGED <<runs, guestVars, fs0, ref>>

\* ------------------------------------------------------------ specification
Next ==
    \/ Start \/ Terminate
    \/ run_main \/ run_from_env \/ run_load
    \/ run_execute \/ run_executed
    \/ run_setup \/ run_prove \/ run_proved \/ run_verify
    \/ evm_from_env \/ evm_setup \/ evm_do_load
    \/ evm_prove \/ evm_proved \/ create_proof_fixture
    \/ guest_read_key \/ guest_read_data \/ guest_verify
    \/ guest_commit_key \/ guest_commit_records

Spec == Init /\ [][Next]_vars

\* ------------------------------------------------------------ reading a trace
Has(t, e) == \E i \in DOMAIN t : t[i] = e
IsPrefix(a, b) == Len(a) <= Len(b) /\ a = SubSeq(b, 1, Len(a))
IsCall(e) ==
    e \in {"load", "setup", "execute", "prove", "verify: ok", "verify: err",
           "create_proof_fixture"}
\* The host's calls of one process, its prints left out.
Calls(t) == SelectSeq(t, IsCall)
IsCommit(e) == e = "commit"

ModeDiagnostic == "eprintln: Error: You must specify either --execute or --prove"
SizeDiagnostic == "eprintln: Unsupported length"
VerifiedMessage == "println: Successfully verified proof!"

ProveMode == bin = "run" /\ args.prove /\ ~args.execute
ExecuteMode == bin = "run" /\ args.execute /\ ~args.prove

\* ------------------------------------------------------------ claims
\* C1: in the fixture-generation binary every create_proof_fixture call is
\* preceded, in the same process, by a client.verify of the proof that
\* returned Ok.  (evm.rs never calls client.verify.)
C1_FixtureOnlyAfterVerify ==
    \A i \in DOMAIN trace :
        trace[i] = "create_proof_fixture" =>
            \E j \in 1..(i - 1) : trace[j] = "verify: ok"

\* C2: once load has returned, in either binary and for every supported
\* size, the input stream holds exactly the key (a String) and then the
\* dataset of the size asked for (a VerifyingDataOpt); the guest's two reads
\* take them in that order with those types, none fails, and they leave the
\* stream empty.
C2_WriteOrderIsReadOrder ==
    /\ Has(trace, "println: zktls verification length") =>
          /\ args.zktls_length \in SupportedLengths
          /\ Len(stdin) = 2
          /\ stdin[1].type = "String" /\ stdin[1].str \in Keys
          /\ stdin[2].type = "VerifyingDataOpt"
          /\ stdin[2].data.len = args.zktls_length
    /\ gpc # "panic"
    /\ gpc = "read_key" => gin = stdin
    /\ gpc = "read_data" => gin = Tail(stdin) /\ verifying_key = stdin[1].str
    /\ gpc \in {"verify", "commit_key", "commit_records", "done"} =>
          /\ gin = <<>>
          /\ verifying_key = stdin[1].str
          /\ verifying_data = stdin[2].data
          /\ IsPrefix(<<"read", "read">>, gtrace)

\* C2's case: the guest has finished on the largest set in one binary after
\* an execution in the other binary was recorded.
C2_Witness ==
    /\ gpc = "done" /\ args.zktls_length = 2048
    /\ ref # NoRef /\ ref.entry # bin

\* C3: the guest's calls are read, read, verify, commit, commit in that
\* order, so nothing is committed before both reads and the verify call; a
\* finished guest has committed exactly the key it read and then
\* get_records() of the dataset it read.
C3_CommitContract ==
    /\ IsPrefix(gtrace, <<"read", "read", "verify", "commit", "commit">>)
    /\ Len(public_values) = Len(SelectSeq(gtrace, IsCommit))
    /\ gpc = "done" =>
          /\ gtrace = <<"read", "read", "verify", "commit", "commit">>
          /\ public_values = <<Str(verifying_key),
                               Records(get_records(verifying_data))>>
          /\ verifying_key = stdin[1].str
          /\ public_values[2].data.records = get_records(stdin[2].data)

\* C3's case: a guest that ran to its end.
C3_Witness ==
    /\ gpc = "done" /\ Len(public_values) = 2
    /\ public_values[1].str = "k256_B" /\ public_values[2].data.records = <<256>>

\* C4: the committed values do not depend on the attestation check.  A
\* finished guest and an earlier finished guest that read the same key and
\* the same records committed the same stream, whatever verify returned in
\* either; and the guest never stops once verify has been called.
C4_OutputIgnoresVerify ==
    /\ (/\ gpc = "done" /\ ref # NoRef
        /\ ref.stdin[1].str = verifying_key
        /\ get_records(ref.stdin[2].data) = get_records(verifying_data))
          => ref.public_values = public_values
    /\ Has(gtrace, "verify") => gpc \in {"commit_key", "commit_records", "done"}
    /\ gpc = "done" => Len(public_values) = 2

\* C4's case: the same key and records, accepted in one execution and
\* rejected in the other.
C4_Witness ==
    /\ gpc = "done" /\ ref # NoRef
    /\ ref.stdin[1].str = verifying_key
    /\ get_records(ref.stdin[2].data) = get_records(verifying_data)
    /\ ref.is_ok /\ ~is_ok

\* C5: in the run binary, with both flags or neither the process has exited
\* with code 1 having printed only the fixed diagnostic, before the client
\* was created, anything was loaded, or the guest, setup, prove or verify
\* ran; with exactly one flag the diagnostic is never printed, the client is
\* created and load is called.
C5_ModeCheck ==
    (bin = "run" /\ pc # "main") =>
        IF args.execute = args.prove
        THEN /\ pc = "exited" /\ exit_code = 1
             /\ trace = <<ModeDiagnostic>>
             /\ ~client /\ stdin = <<>> /\ gpc = "off"
             /\ pk = NoKey /\ vk = NoKey /\ proof = NoProof
             /\ fs = fs0
        ELSE /\ ~Has(trace, ModeDiagnostic)
             /\ pc # "from_env" => client
             /\ pc = "exited" => Has(trace, "load")

\* C5's case: the run binary started with neither flag has exited.
C5_Witness ==
    /\ bin = "run" /\ ~args.execute /\ ~args.prove
    /\ pc = "exited" /\ exit_code = 1

\* C6: in both binaries, once load has been called with a size outside
\* {16, 256, 1024, 2048} the process has exited with code 1 and the size
\* diagnostic, the input stream is empty, and no execute, prove, verify or
\* fixture write happened; with a size inside the set load never takes the
\* exit path.
C6_UnsupportedSize ==
    Has(trace, "load") =>
        IF args.zktls_length \notin {16, 256, 1024, 2048}
        THEN /\ pc = "exited" /\ exit_code = 1
             /\ trace[Len(trace)] = SizeDiagnostic
             /\ stdin = <<>>
             /\ ~Has(trace, "execute") /\ ~Has(trace, "prove")
             /\ ~Has(trace, "verify: ok") /\ ~Has(trace, "verify: err")
             /\ ~Has(trace, "create_proof_fixture")
             /\ gpc = "off" /\ proof = NoProof
             /\ fs = fs0
        ELSE /\ ~Has(trace, SizeDiagnostic)
             /\ exit_code # 1

\* C6's case: the fixture-generation binary has exited on size 17 while a
\* fixture of an earlier run lies in its backend's file.
C6_Witness ==
    /\ bin = "evm" /\ args.zktls_length = 17
    /\ pc = "exited" /\ exit_code = 1
    /\ fs[fixture_file(args.system)] # <<>>

\* C7: in prove mode of the run binary the calls are load, setup, prove,
\* verify in that order; the proof is verified against the key this
\* process's setup returned; a failed prove or verify ends the process with
\* a panic; the verified message follows only a verify that returned Ok; and
\* the fixture directory is as the process found it.
C7_ProveMode ==
    ProveMode =>
        /\ \/ IsPrefix(Calls(trace), <<"load", "setup", "prove", "verify: ok">>)
           \/ Calls(trace) = <<"load", "setup", "prove", "verify: err">>
        /\ Has(trace, "setup") => vk = setup(ZKTLS_ELF).vk /\ pk = setup(ZKTLS_ELF).pk
        /\ Has(trace, "verify: ok") => client_verify(proof, vk)
        /\ Has(trace, "verify: err") =>
              /\ ~client_verify(proof, vk)
              /\ pc = "exited" /\ exit_code = 101
        /\ Has(trace, VerifiedMessage) =>
              /\ Len(trace) > 1
              /\ trace[Len(trace)] = VerifiedMessage
              /\ trace[Len(trace) - 1] = "verify: ok"
        /\ (pc = "exited" /\ Has(trace, "prove") /\ proof = NoProof) =>
              exit_code = 101
        /\ exit_code = 0 =>
              Calls(trace) = <<"load", "setup", "prove", "verify: ok">>
        /\ fs = fs0

\* C7's case: a prove-mode process whose proof did not verify has ended.
C7_Witness ==
    /\ ProveMode /\ pc = "exited"
    /\ Has(trace, "verify: err") /\ proof # NoProof /\ ~proof.valid

\* C8: in execute mode the run binary calls load and execute and nothing
\* else, reports the cycle count when the guest has finished, and leaves
\* the keys, the proof and the fixture directory as they were.
C8_ExecuteMode ==
    ExecuteMode =>
        /\ IsPrefix(Calls(trace), <<"load", "execute">>)
        /\ pk = NoKey /\ vk = NoKey /\ proof = NoProof
        /\ fs = fs0
        /\ exit_code = 0 =>
              /\ Calls(trace) = <<"load", "execute">>
              /\ gpc = "done"
              /\ trace[Len(trace)] = "println: Number of cycles"

\* C8's case: an execute-mode process has ended with code 0 beside a
\* fixture an earlier process wrote.
C8_Witness ==
    /\ ExecuteMode /\ pc = "exited" /\ exit_code = 0
    /\ \E f \in FixtureFiles : fs[f] # <<>> /\ fs[f] # <<Torn>>

\* The file of the current process's backend.
OwnFile == fixture_file(args.system)

\* C9 as stated, in the case where the file exists: when a
\* fixture-generation process has ended and the file of its backend holds a
\* fixture, that fixture is the {vkey, proof} of this process, the most
\* recent one for that backend.
C9_FileHoldsMostRecentRun ==
    (/\ bin = "evm" /\ pc = "exited"
     /\ fs[OwnFile] # <<>> /\ fs[OwnFile] # <<Torn>>)
        => fs[OwnFile] = <<SP1ZktlsProofFixture(vk, proof)>>

\* C9 amended: the file of a backend holds exactly one document, the
\* {vkey, proof} of the most recent process for that backend that finished
\* its fixture write (no history), or what a later failed write left of it;
\* a process that ends before the write leaves both files as they were, and
\* no process changes the other backend's file.
C9_LastWriteWins ==
    /\ \A f \in FixtureFiles : Len(fs[f]) <= 1
    /\ pc # "exited" => fs = fs0
    /\ bin = "run" => fs = fs0
    /\ (bin = "evm" /\ pc = "exited") =>
          /\ \A f \in FixtureFiles \ {OwnFile} : fs[f] = fs0[f]
          /\ to_lowercase(args.system) = OwnFile[1]
          /\ exit_code = 0 => fs[OwnFile] = <<SP1ZktlsProofFixture(vk, proof)>>
          /\ exit_code # 0 =>
                \/ fs[OwnFile] = fs0[OwnFile]
                \/ fs[OwnFile] = <<Torn>> /\ Has(trace, "write: err")

\* C9's case: a process has replaced an earlier, different fixture of its
\* backend.
C9_Witness ==
    /\ bin = "evm" /\ pc = "exited" /\ exit_code = 0
    /\ fs0[OwnFile] # <<>> /\ fs0[OwnFile] # <<Torn>>
    /\ fs[OwnFile] # fs0[OwnFile]
    /\ fs[OwnFile] = <<SP1ZktlsProofFixture(vk, proof)>>

\* The public values the host holds for the current process.
RunPublicValues == IF proof # NoProof THEN proof.public_values ELSE public_values

C10_WitnessEntries ==
    /\ bin = "run" /\ gpc = "done" /\ args.execute
    /\ ref # NoRef /\ ref.entry = "evm" /\ ref.stdin = stdin

====
